---- MODULE Spec2Model ----
(***************************************************************************)
(* A model of allennlp/training/trainer_base.py: the TrainerBase           *)
(* constructor (GPU configuration), _move_to_gpu, train and the            *)
(* from_params factory.                                                    *)
(*                                                                         *)
(* One trainer object is tracked at a time.  Its attributes are a          *)
(* dictionary (a function whose domain is the set of attributes assigned   *)
(* so far), so that "the attribute has not been set" is a statement about  *)
(* the domain.  Every operation records its name, its arguments, the       *)
(* exception it ended with (with the source line of the raise) and its     *)
(* return value.  Calls into collaborators that are not part of the file   *)
(* (Registrable.by_name, TrainerPieces.from_params, Trainer.from_params)   *)
(* are recorded, uninterpreted, in the order they are made.                *)
(*                                                                         *)
(* A behaviour is one use of the class: either a trainer is constructed    *)
(* and then its methods are called, in any order and any number of times,  *)
(* or the factory classmethod is called.  The constructor and the factory  *)
(* read nothing that an earlier operation left behind, so nothing is lost  *)
(* by starting both from the initial state.                                *)
(***************************************************************************)
EXTENDS Integers, Sequences, FiniteSets, TLC

VARIABLES deviceCount, obj, constructed, before, op, args, exc, ret, calls

vars == <<deviceCount, obj, constructed, before, op, args, exc, ret, calls>>

----------------------------------------------------------------------------
(* Bounds of the model *)

\* largest device index a caller passes (indices range over -1..MaxDeviceId)
MaxDeviceId == 1
\* longest list passed as cuda_device
MaxListLen == 2
\* largest number of GPUs the machine may have
MaxDeviceCount == 2

----------------------------------------------------------------------------
(* Python values *)

\* Python's None
None == [kind |-> "none", val |-> 0]

IntVal(n) == [kind |-> "int", val |-> n]

ListVal(s) == [kind |-> "list", val |-> s]

\* the float n + 0.5: a number that is not an int
FloatVal(n) == [kind |-> "float", val |-> n]

DictVal(f) == [kind |-> "dict", val |-> f]

DeviceIds == (0 - 1) .. MaxDeviceId

RECURSIVE SeqsUpTo(_, _)
SeqsUpTo(S, n) ==
    IF n = 0 THEN {<<>>}
    ELSE LET shorter == SeqsUpTo(S, n - 1)
         IN  shorter \cup {Append(s, x) : s \in {t \in shorter : Len(t) = n - 1}, x \in S}

\* the values a caller may pass as cuda_device: ints, lists of ints (the
\* empty list included), and two kinds of value that are neither
CudaDeviceArgs ==
    {IntVal(n) : n \in DeviceIds}
        \cup {ListVal(s) : s \in SeqsUpTo(DeviceIds, MaxListLen)}
        \cup {None}
        \cup {FloatVal(n) : n \in DeviceIds}

AllocKeys == {"encoder", "decoder"}

\* the values a caller may pass as allocation_dict: None, {} and the
\* non-empty dictionaries from parameter-name prefixes to devices
AllocationDictArgs ==
    {None} \cup {DictVal(f) : f \in UNION {[S -> 0 .. MaxDeviceId] : S \in SUBSET AllocKeys}}

SerializationDirs == {"dir_a", "dir_b"}

\* a model is identified by its name and the device it lives on
Models == {[kind |-> "model", val |-> [name |-> n, device |-> 0 - 1]] : n \in {"m1", "m2"}}

----------------------------------------------------------------------------
(* Attribute dictionaries *)

EmptyObj == [k \in {} |-> None]

SetAttr(o, name, v) == [k \in DOMAIN o \cup {name} |-> IF k = name THEN v ELSE o[k]]

HasAttr(o, name) == name \in DOMAIN o

GpuAttrs == {"_multiple_gpu", "_cuda_devices", "_allocation_dict"}

----------------------------------------------------------------------------
(* Outcomes *)

NoExc == [type |-> "none", line |-> 0]

Raise(t, l) == [type |-> t, line |-> l]

NoRet == [kind |-> "noreturn", val |-> 0]

----------------------------------------------------------------------------
(* TrainerBase.__init__ *)

\* whether device index n (or the float n + 0.5) asks for a GPU the machine
\* does not have
DeviceUnavailable(n, count) == n >= 0 /\ n >= count

\* check_for_gpu(cuda_device) on a machine with `count` GPUs: TRUE when it
\* raises ConfigurationError, FALSE when it returns.  The function lives in
\* allennlp.common.checks, outside the file; line 33 discards what it
\* returns, so raising is the only way it acts on the constructor.  A list
\* is checked element by element; None asks for no device.
check_for_gpu(cuda_device, count) ==
    CASE cuda_device.kind = "list" ->
             \E i \in 1 .. Len(cuda_device.val) : DeviceUnavailable(cuda_device.val[i], count)
      [] cuda_device.kind \in {"int", "float"} -> DeviceUnavailable(cuda_device.val, count)
      [] OTHER -> FALSE

\* isinstance(cuda_device, int)
IsInt(cuda_device) == cuda_device.kind = "int"

\* isinstance(cuda_device, list)
IsList(cuda_device) == cuda_device.kind = "list"

\* the guard of line 38, mutated: "or" for "and"
TypeRejected_or(cuda_device) == ~IsInt(cuda_device) \/ ~IsList(cuda_device)

\* line 38: not isinstance(cuda_device, int) and not isinstance(cuda_device, list)
TypeRejected(cuda_device) == ~IsInt(cuda_device) /\ ~IsList(cuda_device)

\* allocation_dict is None or len(allocation_dict) == 0
AllocationEmpty(allocation_dict) ==
    allocation_dict.kind = "none" \/ Cardinality(DOMAIN allocation_dict.val) = 0

\* lines 43-54, mutated: the empty allocation_dict that was passed is stored
ListBranch_keeps_dict(o, cuda_device, allocation_dict) ==
    IF AllocationEmpty(allocation_dict)
    THEN [obj |-> SetAttr(SetAttr(SetAttr(o, "_multiple_gpu", TRUE),
                                  "_cuda_devices", cuda_device.val),
                          "_allocation_dict", allocation_dict),
          exc |-> NoExc]
    ELSE [obj |-> SetAttr(SetAttr(SetAttr(o, "_multiple_gpu", FALSE),
                                  "_cuda_devices", cuda_device.val),
                          "_allocation_dict", allocation_dict),
          exc |-> NoExc]

\* lines 43-54, mutated: data-parallel mode whenever several devices are listed
ListBranch_by_length(o, cuda_device, allocation_dict) ==
    IF AllocationEmpty(allocation_dict)
    THEN [obj |-> SetAttr(SetAttr(SetAttr(o, "_multiple_gpu", TRUE),
                                  "_cuda_devices", cuda_device.val),
                          "_allocation_dict", None),
          exc |-> NoExc]
    ELSE [obj |-> SetAttr(SetAttr(SetAttr(o, "_multiple_gpu", Len(cuda_device.val) > 1),
                                  "_cuda_devices", cuda_device.val),
                          "_allocation_dict", allocation_dict),
          exc |-> NoExc]

\* lines 41-54: cuda_device is a list
ListBranch(o, cuda_device, allocation_dict) ==
    IF AllocationEmpty(allocation_dict)
    THEN \* data parallel
         [obj |-> SetAttr(SetAttr(SetAttr(o, "_multiple_gpu", TRUE),
                                  "_cuda_devices", cuda_device.val),
                          "_allocation_dict", None),
          exc |-> NoExc]
    ELSE [obj |-> SetAttr(SetAttr(SetAttr(o, "_multiple_gpu", FALSE),
                                  "_cuda_devices", cuda_device.val),
                          "_allocation_dict", allocation_dict),
          exc |-> NoExc]

\* lines 56-61, mutated: the assertion is missing
IntBranch_no_assert(o, cuda_device, allocation_dict) ==
    [obj |-> SetAttr(SetAttr(SetAttr(o, "_multiple_gpu", FALSE),
                             "_cuda_devices", <<cuda_device.val>>),
                     "_allocation_dict", None),
     exc |-> NoExc]

\* lines 56-61: cuda_device is an int
IntBranch(o, cuda_device, allocation_dict) ==
    IF ~AllocationEmpty(allocation_dict)
    THEN [obj |-> o, exc |-> Raise("AssertionError", 57)]
    ELSE [obj |-> SetAttr(SetAttr(SetAttr(o, "_multiple_gpu", FALSE),
                                  "_cuda_devices", <<cuda_device.val>>),
                          "_allocation_dict", None),
          exc |-> NoExc]

\* the whole constructor: the attributes the new object ends with and the
\* exception, if any, that construction ended with
InitResult(serialization_dir, cuda_device, allocation_dict, count) ==
    IF check_for_gpu(cuda_device, count)
    THEN [obj |-> EmptyObj, exc |-> Raise("ConfigurationError", 33)]
    ELSE LET o == SetAttr(EmptyObj, "_serialization_dir", serialization_dir)
         IN  IF TypeRejected(cuda_device)
             THEN [obj |-> o, exc |-> Raise("ConfigurationError", 39)]
             ELSE IF IsList(cuda_device)
                  THEN ListBranch(o, cuda_device, allocation_dict)
                  ELSE IntBranch(o, cuda_device, allocation_dict)

\* trainer = TrainerBase(serialization_dir, cuda_device, allocation_dict)
Construct ==
    /\ op = "none"
    /\ \E sd \in SerializationDirs, cd \in CudaDeviceArgs, ad \in AllocationDictArgs :
        LET r == InitResult(sd, cd, ad, deviceCount)
        IN  /\ obj' = r.obj
            /\ exc' = r.exc
            /\ constructed' = (r.exc = NoExc)
            /\ args' = [serialization_dir |-> sd, cuda_device |-> cd, allocation_dict |-> ad]
    /\ before' = EmptyObj
    /\ op' = "__init__"
    /\ ret' = NoRet
    /\ calls' = <<>>
    /\ UNCHANGED deviceCount

----------------------------------------------------------------------------
(* TrainerBase._move_to_gpu *)

\* model.cuda(device): the model, now on that device
ModelCuda(model, device) == [model EXCEPT !.val.device = device]

\* lines 63-67; indexing an empty list raises IndexError
MoveToGpuResult(o, model) ==
    LET devices == o["_cuda_devices"]
    IN  IF Len(devices) = 0
        THEN [ret |-> NoRet, exc |-> Raise("IndexError", 64)]
        ELSE IF devices[1] # 0 - 1
             THEN [ret |-> ModelCuda(model, devices[1]), exc |-> NoExc]
             ELSE [ret |-> model, exc |-> NoExc]

\* trainer._move_to_gpu(model)
MoveToGpu ==
    /\ constructed
    /\ \E model \in Models :
        LET r == MoveToGpuResult(obj, model)
        IN  /\ ret' = r.ret
            /\ exc' = r.exc
            /\ args' = [model |-> model]
    /\ op' = "_move_to_gpu"
    /\ before' = obj
    /\ calls' = <<>>
    /\ UNCHANGED <<deviceCount, obj, constructed>>

----------------------------------------------------------------------------
(* TrainerBase.train *)

\* line 73, mutated: an empty results mapping is returned
TrainResult_returns_empty(o) ==
    [obj |-> o, ret |-> [kind |-> "dict", val |-> EmptyObj], exc |-> NoExc]

\* lines 69-73
TrainResult(o) == [obj |-> o, ret |-> NoRet, exc |-> Raise("NotImplementedError", 73)]

\* trainer.train()
Train ==
    /\ constructed
    /\ LET r == TrainResult(obj)
       IN  /\ obj' = r.obj
           /\ ret' = r.ret
           /\ exc' = r.exc
    /\ op' = "train"
    /\ args' = EmptyObj
    /\ before' = obj
    /\ calls' = <<>>
    /\ UNCHANGED <<deviceCount, constructed>>

----------------------------------------------------------------------------
(* TrainerBase.from_params *)

\* line 27
default_implementation == "default"

TrainerTypes == {default_implementation, "callback", "no_op"}

\* a 'trainer' section: with or without a 'type', with or without other keys
TrainerSections ==
    {[k \in S |-> IF k = "type" THEN t ELSE "20"] :
        S \in SUBSET {"type", "num_epochs"}, t \in TrainerTypes}

\* a configuration: with or without a 'trainer' section, with or without
\* other sections
ParamsArgs ==
    {[k \in S |-> IF k = "trainer" THEN sec ELSE "simple_tagger"] :
        S \in SUBSET {"trainer", "model"}, sec \in TrainerSections}

\* {}
EmptyDict == [k \in {} |-> ""]

\* d.get(key, default)
DictGet(d, key, default) == IF key \in DOMAIN d THEN d[key] ELSE default

\* d.pop(key, default): the value popped and the dictionary left
DictPop(d, key, default) ==
    [value |-> IF key \in DOMAIN d THEN d[key] ELSE default,
     dict  |-> [j \in DOMAIN d \ {key} |-> d[j]]]

\* a class of the package
Class(name) == [kind |-> "class", val |-> name]

\* a call of method `callee` on `receiver` with arguments `arguments`
Call(callee, receiver, arguments) == [callee |-> callee, on |-> receiver, with |-> arguments]

\* what a recorded call returned
ResultOf(call) == [kind |-> "result", val |-> call]

\* x.name
AttrOf(x, name) == [kind |-> "attr", val |-> <<x, name>>]

\* line 81: the type popped from the 'trainer' section and the contents of
\* params afterwards.  pop removes 'type' from the section itself; the {}
\* that get returns when there is no section is not part of params.
PopType(params) ==
    LET popped == DictPop(DictGet(params, "trainer", EmptyDict), "type", "default")
    IN  [typ3   |-> popped.value,
         params |-> IF "trainer" \in DOMAIN params
                    THEN [params EXCEPT !["trainer"] = popped.dict]
                    ELSE params]

\* lines 87-94, mutated: Trainer.from_params is given the configuration
\* itself instead of pieces.params
DefaultPath_own_params(params, serialization_dir, recover) ==
    LET c1 == Call("from_params", Class("TrainerPieces"), <<params, serialization_dir, recover>>)
        pieces == ResultOf(c1)
        c2 == Call("from_params", Class("Trainer"),
                   [model               |-> AttrOf(pieces, "model"),
                    serialization_dir   |-> serialization_dir,
                    iterator            |-> AttrOf(pieces, "iterator"),
                    train_data          |-> AttrOf(pieces, "train_dataset"),
                    validation_data     |-> AttrOf(pieces, "validation_dataset"),
                    params              |-> params,
                    validation_iterator |-> AttrOf(pieces, "validation_iterator")])
    IN  [calls |-> <<c1, c2>>, ret |-> ResultOf(c2)]

\* lines 83-94: the default trainer
DefaultPath(params, serialization_dir, recover) ==
    LET c1 == Call("from_params", Class("TrainerPieces"), <<params, serialization_dir, recover>>)
        pieces == ResultOf(c1)
        c2 == Call("from_params", Class("Trainer"),
                   [model               |-> AttrOf(pieces, "model"),
                    serialization_dir   |-> serialization_dir,
                    iterator            |-> AttrOf(pieces, "iterator"),
                    train_data          |-> AttrOf(pieces, "train_dataset"),
                    validation_data     |-> AttrOf(pieces, "validation_dataset"),
                    params              |-> AttrOf(pieces, "params"),
                    validation_iterator |-> AttrOf(pieces, "validation_iterator")])
    IN  [calls |-> <<c1, c2>>, ret |-> ResultOf(c2)]

\* line 96, mutated: recover is not passed on (the callee's default, False)
NamedPath_drops_recover(typ3, params, serialization_dir, recover) ==
    LET c1 == Call("by_name", Class("TrainerBase"), <<typ3>>)
        c2 == Call("from_params", ResultOf(c1), <<params, serialization_dir, FALSE>>)
    IN  [calls |-> <<c1, c2>>, ret |-> ResultOf(c2)]

\* lines 95-96: the trainer registered under the name
NamedPath(typ3, params, serialization_dir, recover) ==
    LET c1 == Call("by_name", Class("TrainerBase"), <<typ3>>)
        c2 == Call("from_params", ResultOf(c1), <<params, serialization_dir, recover>>)
    IN  [calls |-> <<c1, c2>>, ret |-> ResultOf(c2)]

\* lines 75-96
FromParamsResult(params, serialization_dir, recover) ==
    LET p == PopType(params)
    IN  IF p.typ3 = "default"
        THEN DefaultPath(p.params, serialization_dir, recover)
        ELSE NamedPath(p.typ3, p.params, serialization_dir, recover)

\* TrainerBase.from_params(params, serialization_dir, recover)
FromParams ==
    /\ op = "none"
    /\ \E params \in ParamsArgs, sd \in SerializationDirs, recover \in BOOLEAN :
        LET r == FromParamsResult(params, sd, recover)
        IN  /\ calls' = r.calls
            /\ ret' = r.ret
            /\ args' = [params |-> params, serialization_dir |-> sd, recover |-> recover]
    /\ op' = "from_params"
    /\ exc' = NoExc
    /\ before' = obj
    /\ UNCHANGED <<deviceCount, obj, constructed>>

----------------------------------------------------------------------------
(* The program *)

Init ==
    /\ deviceCount \in 0 .. MaxDeviceCount
    /\ obj = EmptyObj
    /\ constructed = FALSE
    /\ before = EmptyObj
    /\ op = "none"
    /\ args = EmptyObj
    /\ exc = NoExc
    /\ ret = NoRet
    /\ calls = <<>>

Next == Construct \/ MoveToGpu \/ Train \/ FromParams

Spec == Init /\ [][Next]_vars

----------------------------------------------------------------------------
(* Properties of from_params *)

\* the configuration names a trainer type
HasType(params) == "trainer" \in DOMAIN params /\ "type" \in DOMAIN params["trainer"]

\* the contents of the params object once 'type' has been popped from its
\* 'trainer' section
WithoutType(params) ==
    IF "trainer" \in DOMAIN params
    THEN [params EXCEPT !["trainer"] = [k \in DOMAIN @ \ {"type"} |-> @[k]]]
    ELSE params

\* C1: from_params with a 'trainer' section whose 'type' is not "default"
\* calls TrainerBase.by_name with exactly that type, calls from_params of what
\* by_name returned with the params object (its 'type' popped), the same
\* serialization_dir and the same recover flag, returns what that call
\* returned, and calls neither Trainer nor TrainerPieces.
C1_NamedDispatch ==
    (op = "from_params" /\ HasType(args.params)
        /\ args.params["trainer"]["type"] # "default") =>
        LET c1 == Call("by_name", Class("TrainerBase"), <<args.params["trainer"]["type"]>>)
            c2 == Call("from_params", ResultOf(c1),
                       <<WithoutType(args.params), args.serialization_dir, args.recover>>)
        IN  /\ calls = <<c1, c2>>
            /\ ret = ResultOf(c2)
            /\ \A i \in 1 .. Len(calls) :
                   calls[i].on.kind = "class" => calls[i].on.val \notin {"Trainer", "TrainerPieces"}

\* a named trainer was dispatched to, with recover set
C1_Witness ==
    /\ op = "from_params"
    /\ HasType(args.params)
    /\ args.params["trainer"]["type"] = "callback"
    /\ args.recover
    /\ Len(calls) = 2
    /\ calls[1].callee = "by_name"
    /\ ret = ResultOf(calls[2])

\* C2: from_params with no 'trainer' section, with a 'trainer' section that
\* has no 'type', or with type "default" calls TrainerPieces.from_params with
\* (params, serialization_dir, recover), then Trainer.from_params with the
\* pieces' model, iterator, train_dataset, validation_dataset, params and
\* validation_iterator and the serialization_dir, returns what that call
\* returned, and never calls by_name.
C2_DefaultPath ==
    (op = "from_params"
        /\ (~HasType(args.params) \/ args.params["trainer"]["type"] = "default")) =>
        LET c1 == Call("from_params", Class("TrainerPieces"),
                       <<WithoutType(args.params), args.serialization_dir, args.recover>>)
            pieces == ResultOf(c1)
            c2 == Call("from_params", Class("Trainer"),
                       [model               |-> AttrOf(pieces, "model"),
                        serialization_dir   |-> args.serialization_dir,
                        iterator            |-> AttrOf(pieces, "iterator"),
                        train_data          |-> AttrOf(pieces, "train_dataset"),
                        validation_data     |-> AttrOf(pieces, "validation_dataset"),
                        params              |-> AttrOf(pieces, "params"),
                        validation_iterator |-> AttrOf(pieces, "validation_iterator")])
        IN  /\ calls = <<c1, c2>>
            /\ ret = ResultOf(c2)
            /\ \A i \in 1 .. Len(calls) : calls[i].callee # "by_name"

\* the default trainer was built from a 'trainer' section that names no type
C2_Witness ==
    /\ op = "from_params"
    /\ "trainer" \in DOMAIN args.params
    /\ "type" \notin DOMAIN args.params["trainer"]
    /\ Len(calls) = 2
    /\ calls[1].on = Class("TrainerPieces")
    /\ calls[2].on = Class("Trainer")
    /\ ret = ResultOf(calls[2])

----------------------------------------------------------------------------
(* Properties of the constructor *)

\* the attributes of GpuAttrs that the object has
GpuAttrsSet == GpuAttrs \cap DOMAIN obj

\* allocation_dict was passed as None or as {}
NoAllocation ==
    \/ args.allocation_dict.kind = "none"
    \/ args.allocation_dict.kind = "dict" /\ DOMAIN args.allocation_dict.val = {}

\* construction ended in check_for_gpu's ConfigurationError
RejectedByCheckForGpu == exc = Raise("ConfigurationError", 33)

C5_AsStated ==
    (op = "__init__" /\ args.cuda_device.kind = "list" /\ NoAllocation) =>
        /\ exc = NoExc
        /\ GpuAttrsSet = GpuAttrs
        /\ obj["_multiple_gpu"] = TRUE
        /\ obj["_cuda_devices"] = args.cuda_device.val
        /\ obj["_allocation_dict"] = None

\* C5: a list cuda_device with allocation_dict None or empty either is
\* rejected by check_for_gpu (ConfigurationError, no GPU attribute set) or
\* gives _multiple_gpu True, _cuda_devices the list and _allocation_dict None.
C5_DataParallel ==
    (op = "__init__" /\ args.cuda_device.kind = "list" /\ NoAllocation) =>
        IF RejectedByCheckForGpu
        THEN GpuAttrsSet = {}
        ELSE /\ exc = NoExc
             /\ GpuAttrsSet = GpuAttrs
             /\ obj["_multiple_gpu"] = TRUE
             /\ obj["_cuda_devices"] = args.cuda_device.val
             /\ obj["_allocation_dict"] = None

\* two devices and an empty allocation_dict: data parallel, the {} discarded
C5_Witness ==
    /\ op = "__init__"
    /\ args.cuda_device.kind = "list"
    /\ Len(args.cuda_device.val) = 2
    /\ args.allocation_dict = DictVal(EmptyDict)
    /\ constructed
    /\ obj["_multiple_gpu"] = TRUE
    /\ obj["_allocation_dict"] = None

\* C6 as stated: a list cuda_device with a non-empty allocation_dict always
\* gives _multiple_gpu False, _cuda_devices the list and _allocation_dict the
\* given dictionary.
C6_AsStated ==
    (op = "__init__" /\ args.cuda_device.kind = "list" /\ ~NoAllocation) =>
        /\ exc = NoExc
        /\ GpuAttrsSet = GpuAttrs
        /\ obj["_multiple_gpu"] = FALSE
        /\ obj["_cuda_devices"] = args.cuda_device.val
        /\ obj["_allocation_dict"] = args.allocation_dict

\* C6: a list cuda_device with a non-empty allocation_dict either is rejected
\* by check_for_gpu (ConfigurationError, no GPU attribute set) or gives
\* _multiple_gpu False, however many devices the list names, _cuda_devices
\* the list and _allocation_dict the given dictionary.
C6_AllocationMode ==
    (op = "__init__" /\ args.cuda_device.kind = "list" /\ ~NoAllocation) =>
        IF RejectedByCheckForGpu
        THEN GpuAttrsSet = {}
        ELSE /\ exc = NoExc
             /\ GpuAttrsSet = GpuAttrs
             /\ obj["_multiple_gpu"] = FALSE
             /\ obj["_cuda_devices"] = args.cuda_device.val
             /\ obj["_allocation_dict"] = args.allocation_dict

\* two devices and an allocation for both prefixes: not data parallel
C6_Witness ==
    /\ op = "__init__"
    /\ args.cuda_device.kind = "list"
    /\ Len(args.cuda_device.val) = 2
    /\ DOMAIN args.allocation_dict.val = AllocKeys
    /\ constructed
    /\ obj["_multiple_gpu"] = FALSE
    /\ obj["_allocation_dict"] = args.allocation_dict

\* C7 as stated: an int cuda_device with a non-empty allocation_dict always
\* fails with AssertionError, and otherwise construction always succeeds with
\* _multiple_gpu False, _cuda_devices [cuda_device] and _allocation_dict None.
C7_AsStated ==
    (op = "__init__" /\ args.cuda_device.kind = "int") =>
        IF ~NoAllocation
        THEN exc.type = "AssertionError"
        ELSE /\ exc = NoExc
             /\ GpuAttrsSet = GpuAttrs
             /\ obj["_multiple_gpu"] = FALSE
             /\ obj["_cuda_devices"] = <<args.cuda_device.val>>
             /\ obj["_allocation_dict"] = None

\* C7: an int cuda_device either is rejected by check_for_gpu
\* (ConfigurationError, no GPU attribute set), or, with a non-empty
\* allocation_dict, fails with AssertionError, or else construction succeeds
\* with _multiple_gpu False, _cuda_devices [cuda_device] and _allocation_dict
\* None.
C7_SingleDevice ==
    (op = "__init__" /\ args.cuda_device.kind = "int") =>
        IF RejectedByCheckForGpu
        THEN GpuAttrsSet = {}
        ELSE IF ~NoAllocation
             THEN exc = Raise("AssertionError", 57)
             ELSE /\ exc = NoExc
                  /\ GpuAttrsSet = GpuAttrs
                  /\ obj["_multiple_gpu"] = FALSE
                  /\ obj["_cuda_devices"] = <<args.cuda_device.val>>
                  /\ obj["_allocation_dict"] = None

\* GPU 0 exists and an allocation was given for it: the assertion fails
C7_Witness ==
    /\ op = "__init__"
    /\ args.cuda_device = IntVal(0)
    /\ deviceCount > 0
    /\ ~NoAllocation
    /\ exc.type = "AssertionError"
    /\ ~constructed

----------------------------------------------------------------------------
(* Properties of the methods *)

\* C4: train ends with NotImplementedError, returns nothing, and leaves every
\* attribute of the trainer as it was.
C4_TrainNotImplemented ==
    op = "train" =>
        /\ exc.type = "NotImplementedError"
        /\ ret = NoRet
        /\ obj = before

\* train was called on a data-parallel trainer
C4_Witness ==
    /\ op = "train"
    /\ exc.type = "NotImplementedError"
    /\ obj["_multiple_gpu"] = TRUE
    /\ Len(obj["_cuda_devices"]) = 2

\* C8: _move_to_gpu returns the model unchanged exactly when _cuda_devices[0]
\* is -1 and model.cuda(_cuda_devices[0]) otherwise, whatever the other
\* devices and the allocation_dict are, and leaves the trainer's attributes
\* as they were.
C8_AsStated ==
    op = "_move_to_gpu" =>
        /\ exc = NoExc
        /\ Len(obj["_cuda_devices"]) >= 1
        /\ ret = IF obj["_cuda_devices"][1] = 0 - 1
                 THEN args.model
                 ELSE ModelCuda(args.model, obj["_cuda_devices"][1])
        /\ obj = before

\* _move_to_gpu on a trainer that has a first device: placement follows that
\* device alone and the attributes are left as they were; with no device at
\* all it raises IndexError
MoveToGpuFirstDevice ==
    op = "_move_to_gpu" =>
        /\ obj = before
        /\ IF Len(obj["_cuda_devices"]) = 0
           THEN exc = Raise("IndexError", 64) /\ ret = NoRet
           ELSE /\ exc = NoExc
                /\ ret = IF obj["_cuda_devices"][1] = 0 - 1
                         THEN args.model
                         ELSE ModelCuda(args.model, obj["_cuda_devices"][1])

====
